---- MODULE Spec2Model ----
(***************************************************************************)
(* A model of docs/gallery/tutorials/advanced_api_usage.py.                *)
(*                                                                         *)
(* The tutorial is a straight-line script that drives alpa through its     *)
(* public API.  Two specifications are given:                              *)
(*                                                                         *)
(*   Spec      the script, one action per kind of top-level statement,     *)
(*             executed in source order (pc walks over Script);            *)
(*   CallSpec  the __call__ method of the three Bert layer models, run     *)
(*             statement by statement for every num_hidden_layers up to    *)
(*             MaxLayers.                                                  *)
(*                                                                         *)
(* alpa itself (global_config, AutoShardingOption, parallelize, the layer  *)
(* slicing) is not part of the file; what the model needs of it is taken   *)
(* from the tutorial's prose and is marked as such where it is defined.    *)
(***************************************************************************)
EXTENDS Integers, Sequences, FiniteSets, TLC

VARIABLES
    pc,                   \* index in Script of the next statement
    last,                 \* source line of the statement executed last (0: none)
    clock,                \* objects constructed so far; an object's id is its birth time
    cluster,              \* TRUE once DeviceCluster() was constructed
    meshes,               \* mesh name -> [created, alive, shutdowns]
    batch,                \* id of the object bound to `batch` (0: unbound)
    model,                \* the object bound to the global `model`
    state,                \* the object bound to the global `state`
    train_step,           \* line of the def bound to the global `train_step`
    get_train_step,       \* line of the def bound to the global `get_train_step`
    as_option,            \* global_config.default_autosharding_option
    as_option_backup,     \* <<>> or <<snapshot>>
    global_config,        \* the fields of global_config the script touches
    global_config_backup, \* <<>> or <<snapshot>>
    executables,          \* every executable compiled so far; `executable` is the last
    compiles,             \* log of the get_executable calls
    call_cls,             \* CallSpec: class of the model being called
    call_n,               \* CallSpec: config.num_hidden_layers
    call_i,               \* CallSpec: loop index i
    call_phase,           \* CallSpec: position inside the loop body
    call_trace            \* CallSpec: mark_pipeline and layer calls emitted so far

scriptVars == <<pc, last, clock, cluster, meshes, batch, model, state, train_step,
                get_train_step, as_option, as_option_backup, global_config,
                global_config_backup, executables, compiles>>
callVars == <<call_cls, call_n, call_i, call_phase, call_trace>>
vars == <<scriptVars, callVars>>

-----------------------------------------------------------------------------
(* Constants of the script. *)

n_layers == 4

num_host == 1

num_device == 4

\* "Default mesh shape: (num_host,num_device)=(1,4)"
DefaultMeshShape == <<num_host, num_device>>

\* bert_config = BertConfig(..., num_hidden_layers=n_layers)
bert_config == [num_hidden_layers |-> n_layers]

\* Largest num_hidden_layers explored by CallSpec.
MaxLayers == 11

\* Python's None for an optional value; Some(v) for a set one.
None == <<>>

Some(v) == <<v>>

-----------------------------------------------------------------------------
(* The three model classes and their __call__.                             *)

Classes == {"BertLayerModel", "UnequalManualLayerBertLayerModel",
            "EqualManualLayerBertLayerModel"}

ManualClasses == {"UnequalManualLayerBertLayerModel", "EqualManualLayerBertLayerModel"}

\* str(i) for i >= 0: the decimal digits, most significant first.
RECURSIVE Str(_)
Str(i) == IF i < 10 THEN <<i>> ELSE Str(i \div 10) \o <<i % 10>>

\* mark_pipeline(name=..., mark_type=...)
mark_pipeline(name, mark_type) == [kind |-> "mark", name |-> name, mark_type |-> mark_type]

\* layer_outputs = layer(x, attention_mask); x = layer_outputs[0]
LayerCall(i) == [kind |-> "layer", idx |-> i]

\* UnequalStart with the test "i < 1".
UnequalStartOnlyFirst(i) ==
    IF i < 1 THEN <<mark_pipeline(Str(i), "start")>> ELSE <<>>

\* UnequalManualLayerBertLayerModel.__call__: "if i < 2: mark_pipeline(start)"
UnequalStart(i) ==
    IF i < 2 THEN <<mark_pipeline(Str(i), "start")>> ELSE <<>>

\* "if i == 0 or i == self.config.num_hidden_layers - 1: mark_pipeline(end)"
UnequalEnd(n, i) ==
    IF i = 0 \/ i = n - 1 THEN <<mark_pipeline(Str(i), "end")>> ELSE <<>>

\* EqualManualLayerBertLayerModel.__call__: a start marker in every iteration
EqualStart(i) == <<mark_pipeline(Str(i), "start")>>

\* ... and an end marker in every iteration
EqualEnd(i) == <<mark_pipeline(Str(i), "end")>>

\* What the loop body emits before the layer call.
StartMarks(cls, n, i) ==
    CASE cls = "UnequalManualLayerBertLayerModel" -> UnequalStart(i)
      [] cls = "EqualManualLayerBertLayerModel" -> EqualStart(i)
      [] OTHER -> <<>>

\* What the loop body emits after the layer call.
EndMarks(cls, n, i) ==
    CASE cls = "UnequalManualLayerBertLayerModel" -> UnequalEnd(n, i)
      [] cls = "EqualManualLayerBertLayerModel" -> EqualEnd(i)
      [] OTHER -> <<>>

\* The events of iterations i, i+1, ..., n-1 of the loop.
RECURSIVE LoopFrom(_, _, _)
LoopFrom(cls, n, i) ==
    IF i >= n THEN <<>>
    ELSE StartMarks(cls, n, i) \o <<LayerCall(i)>> \o EndMarks(cls, n, i)
         \o LoopFrom(cls, n, i + 1)

\* Everything one call of model.__call__ emits.
CallTrace(cls, n) == LoopFrom(cls, n, 0)

-----------------------------------------------------------------------------
(* CallSpec: __call__ run statement by statement.                          *)

CallIdle ==
    /\ call_cls = "BertLayerModel"
    /\ call_n = 0
    /\ call_i = 0
    /\ call_phase = "idle"
    /\ call_trace = <<>>

\* for i, layer in enumerate(self.layers): the loop test
CallLoop ==
    /\ call_phase = "loop"
    /\ call_phase' = IF call_i < call_n THEN "start" ELSE "done"
    /\ UNCHANGED <<call_cls, call_n, call_i, call_trace, scriptVars>>

\* the start marker, if the class emits one in this iteration
CallStartMarker ==
    /\ call_phase = "start"
    /\ call_trace' = call_trace \o StartMarks(call_cls, call_n, call_i)
    /\ call_phase' = "layer"
    /\ UNCHANGED <<call_cls, call_n, call_i, scriptVars>>

\* the Bert layer
CallLayer ==
    /\ call_phase = "layer"
    /\ call_trace' = Append(call_trace, LayerCall(call_i))
    /\ call_phase' = "end"
    /\ UNCHANGED <<call_cls, call_n, call_i, scriptVars>>

\* the end marker, if the class emits one in this iteration; next iteration
CallEndMarker ==
    /\ call_phase = "end"
    /\ call_trace' = call_trace \o EndMarks(call_cls, call_n, call_i)
    /\ call_i' = call_i + 1
    /\ call_phase' = "loop"
    /\ UNCHANGED <<call_cls, call_n, scriptVars>>

CallNext ==
    \/ CallLoop
    \/ CallStartMarker
    \/ CallLayer
    \/ CallEndMarker

-----------------------------------------------------------------------------
(* The train_step functions the script defines.  A train step is described *)
(* by the decorators applied to loss_func, in the order they are applied,  *)
(* the grad transformation then applied to the decorated function, and     *)
(* whether apply_fn is passed batch["attention_mask"].                     *)

manual_layer_construction(lift_markers, remat_layer) ==
    [name |-> "manual_layer_construction", layer_num |-> None,
     lift_markers |-> lift_markers, remat_layer |-> remat_layer]

automatic_remat(layer_num) ==
    [name |-> "automatic_remat", layer_num |-> Some(layer_num),
     lift_markers |-> FALSE, remat_layer |-> FALSE]

automatic_layer_construction(layer_num) ==
    [name |-> "automatic_layer_construction", layer_num |-> Some(layer_num),
     lift_markers |-> FALSE, remat_layer |-> FALSE]

\* def train_step at line 78: jax.grad, no decorator
TrainStep78 ==
    [def |-> 78, decorators |-> <<>>, grad |-> "jax.grad", attention_mask |-> TRUE]

\* def train_step at line 180: alpa.grad; apply_fn(params, batch["x"])
TrainStep180 ==
    [def |-> 180, decorators |-> <<>>, grad |-> "alpa.grad", attention_mask |-> FALSE]

\* def train_step at line 237: @manual_layer_construction(lift_markers=True)
TrainStep237 ==
    [def |-> 237, decorators |-> <<manual_layer_construction(TRUE, FALSE)>>,
     grad |-> "alpa.grad", attention_mask |-> TRUE]

\* def get_train_step at line 335:
\* @manual_layer_construction(lift_markers=True, remat_layer=remat_layer)
GetTrainStep335(remat_layer) ==
    [def |-> 335, decorators |-> <<manual_layer_construction(TRUE, remat_layer)>>,
     grad |-> "alpa.grad", attention_mask |-> TRUE]

\* get_train_step at line 376 with the two decorators applied in the other order.
GetTrainStep376Swapped(remat_layer) ==
    [def |-> 376,
     decorators |-> <<automatic_layer_construction(2)>>
                    \o (IF remat_layer THEN <<automatic_remat(4)>> ELSE <<>>),
     grad |-> "alpa.grad", attention_mask |-> TRUE]

\* def get_train_step at line 376: automatic_remat if remat_layer, then
\* automatic_layer_construction, then alpa.grad
GetTrainStep376(remat_layer) ==
    [def |-> 376,
     decorators |-> (IF remat_layer THEN <<automatic_remat(4)>> ELSE <<>>)
                    \o <<automatic_layer_construction(2)>>,
     grad |-> "alpa.grad", attention_mask |-> TRUE]

\* The def bound to `train_step`, by the line that defined it.
TrainStepDef(line) ==
    CASE line = 78 -> TrainStep78
      [] line = 180 -> TrainStep180
      [] line = 237 -> TrainStep237

\* get_train_step(remat_layer), by the line that defined get_train_step.
GetTrainStepDef(line, remat_layer) ==
    CASE line = 335 -> GetTrainStep335(remat_layer)
      [] line = 376 -> GetTrainStep376(remat_layer)

-----------------------------------------------------------------------------
(* The script: its top-level statements in source order, by section.       *)
(* Definitions of classes and helper functions, imports and the tensors    *)
(* x, y, attention_mask bind names only and are left out.                 *)

St(line, op) == [line |-> line, op |-> op]

SetAs(line, field, value) ==
    [line |-> line, op |-> "set_as_option", field |-> field, value |-> value]

SetGc(line, field, value) ==
    [line |-> line, op |-> "set_global_config", field |-> field, value |-> value]

SetDev(line, mesh) == [line |-> line, op |-> "set_devices", mesh |-> mesh]

NewModel(line, cls) == [line |-> line, op |-> "model", cls |-> cls]

\* executable = parallelize(train_step).get_executable(state, batch)
Compile(line) ==
    [line |-> line, op |-> "get_executable", via |-> "train_step", remat_layer |-> FALSE]

\* executable = parallelize(get_train_step(r)).get_executable(state, batch)
CompileVia(line, remat_layer) ==
    [line |-> line, op |-> "get_executable", via |-> "get_train_step",
     remat_layer |-> remat_layer]

SectionLaunch ==
    << St(25, "ray_init"),
       St(26, "cluster"),
       SetDev(27, "physical") >>

SectionSetup ==
    << St(69, "batch"),
       NewModel(74, "BertLayerModel"),
       St(75, "create_train_state"),
       St(78, "def_train_step") >>

SectionReduceScatter ==
    << St(123, "as_backup"),
       SetAs(125, "prefer_reduce_scatter", TRUE),
       Compile(126),
       St(127, "print_hlo"),
       SetAs(130, "prefer_reduce_scatter", FALSE),
       St(131, "create_train_state"),
       Compile(132),
       St(133, "print_hlo"),
       St(135, "as_restore") >>

\* SectionForceBatchDim without its closing as_option.restore.
SectionForceBatchDimNoRestore ==
    << SetAs(154, "force_batch_dim_to_mesh_dim", Some(0)),
       St(155, "reset_state"),
       Compile(156),
       St(157, "print_hlo"),
       SetAs(160, "force_batch_dim_to_mesh_dim", Some(1)),
       St(161, "reset_state"),
       Compile(162),
       St(163, "print_hlo") >>

\* SectionForceBatchDim with the second assignment made after its compile.
SectionForceBatchDimLate ==
    << SetAs(154, "force_batch_dim_to_mesh_dim", Some(0)),
       St(155, "reset_state"),
       Compile(156),
       St(157, "print_hlo"),
       St(161, "reset_state"),
       Compile(162),
       SetAs(160, "force_batch_dim_to_mesh_dim", Some(1)),
       St(163, "print_hlo"),
       St(166, "as_restore") >>

SectionForceBatchDim ==
    << SetAs(154, "force_batch_dim_to_mesh_dim", Some(0)),
       St(155, "reset_state"),
       Compile(156),
       St(157, "print_hlo"),
       SetAs(160, "force_batch_dim_to_mesh_dim", Some(1)),
       St(161, "reset_state"),
       Compile(162),
       St(163, "print_hlo"),
       St(166, "as_restore") >>

\* SectionStrategy with the virtual mesh installed before the shutdown.
SectionStrategyShutdownLate ==
    << SetGc(176, "strategy", "pipeshard_parallel"),
       SetDev(177, "virtual"),
       St(175, "devices_shutdown"),
       St(180, "def_train_step") >>

SectionStrategy ==
    << St(175, "devices_shutdown"),
       SetGc(176, "strategy", "pipeshard_parallel"),
       SetDev(177, "virtual"),
       St(180, "def_train_step") >>

SectionManualLayer ==
    << St(237, "def_train_step"),
       NewModel(250, "UnequalManualLayerBertLayerModel"),
       St(251, "create_train_state"),
       Compile(253),
       St(254, "profile"),
       St(256, "shutdown") >>

\* SectionManualStage without its closing global_config.restore.
SectionManualStageNoRestore ==
    << NewModel(304, "EqualManualLayerBertLayerModel"),
       St(305, "create_train_state"),
       St(307, "gc_backup"),
       SetGc(310, "pipeline_stage_mode", "manual_gpipe"),
       SetGc(312, "forward_stage_layer_ids", Some(<< <<0>>, <<1>>, <<2, 3>> >>)),
       SetGc(314, "sub_physical_mesh_shapes", Some(<< <<1, 1>>, <<1, 1>>, <<1, 2>> >>)),
       SetGc(316, "sub_logical_mesh_shapes", Some(<< <<1, 1>>, <<1, 1>>, <<2, 1>> >>)),
       SetGc(318, "submesh_autosharding_option_dicts", Some(<< {}, {}, {} >>)),
       Compile(319),
       St(320, "profile"),
       St(322, "shutdown") >>

\* SectionManualStage with the last stage given a (2, 2) logical mesh.
SectionManualStageBadMesh ==
    << NewModel(304, "EqualManualLayerBertLayerModel"),
       St(305, "create_train_state"),
       St(307, "gc_backup"),
       SetGc(310, "pipeline_stage_mode", "manual_gpipe"),
       SetGc(312, "forward_stage_layer_ids", Some(<< <<0>>, <<1>>, <<2, 3>> >>)),
       SetGc(314, "sub_physical_mesh_shapes", Some(<< <<1, 1>>, <<1, 1>>, <<1, 2>> >>)),
       SetGc(316, "sub_logical_mesh_shapes", Some(<< <<1, 1>>, <<1, 1>>, <<2, 2>> >>)),
       SetGc(318, "submesh_autosharding_option_dicts", Some(<< {}, {}, {} >>)),
       Compile(319),
       St(320, "profile"),
       St(322, "shutdown"),
       St(323, "gc_restore") >>

SectionManualStage ==
    << NewModel(304, "EqualManualLayerBertLayerModel"),
       St(305, "create_train_state"),
       St(307, "gc_backup"),
       SetGc(310, "pipeline_stage_mode", "manual_gpipe"),
       SetGc(312, "forward_stage_layer_ids", Some(<< <<0>>, <<1>>, <<2, 3>> >>)),
       SetGc(314, "sub_physical_mesh_shapes", Some(<< <<1, 1>>, <<1, 1>>, <<1, 2>> >>)),
       SetGc(316, "sub_logical_mesh_shapes", Some(<< <<1, 1>>, <<1, 1>>, <<2, 1>> >>)),
       SetGc(318, "submesh_autosharding_option_dicts", Some(<< {}, {}, {} >>)),
       Compile(319),
       St(320, "profile"),
       St(322, "shutdown"),
       St(323, "gc_restore") >>

\* SectionRemat without the reset_state() between its two compiles.
SectionRematNoReset ==
    << NewModel(331, "EqualManualLayerBertLayerModel"),
       St(332, "create_train_state"),
       St(335, "def_get_train_step"),
       St(354, "print"),
       CompileVia(355, TRUE),
       St(356, "profile"),
       St(357, "shutdown"),
       St(359, "print"),
       CompileVia(360, FALSE),
       St(361, "profile"),
       St(362, "shutdown") >>

\* SectionRemat without the shutdown of its first executable.
SectionRematNoShutdown ==
    << NewModel(331, "EqualManualLayerBertLayerModel"),
       St(332, "create_train_state"),
       St(335, "def_get_train_step"),
       St(354, "print"),
       CompileVia(355, TRUE),
       St(356, "profile"),
       St(358, "reset_state"),
       St(359, "print"),
       CompileVia(360, FALSE),
       St(361, "profile"),
       St(362, "shutdown") >>

SectionRemat ==
    << NewModel(331, "EqualManualLayerBertLayerModel"),
       St(332, "create_train_state"),
       St(335, "def_get_train_step"),
       St(354, "print"),
       CompileVia(355, TRUE),
       St(356, "profile"),
       St(357, "shutdown"),
       St(358, "reset_state"),
       St(359, "print"),
       CompileVia(360, FALSE),
       St(361, "profile"),
       St(362, "shutdown") >>

SectionAutoRemat ==
    << NewModel(373, "BertLayerModel"),
       St(376, "def_get_train_step"),
       St(397, "print"),
       St(398, "create_train_state"),
       CompileVia(399, TRUE),
       St(400, "profile"),
       St(401, "shutdown"),
       St(402, "reset_state"),
       St(403, "print"),
       CompileVia(404, FALSE),
       St(405, "profile"),
       St(406, "shutdown") >>

Script ==
    SectionLaunch \o SectionSetup \o SectionReduceScatter \o SectionForceBatchDim
    \o SectionStrategy \o SectionManualLayer \o SectionManualStage
    \o SectionRemat \o SectionAutoRemat

-----------------------------------------------------------------------------
(* State of the script before its first statement.                         *)

\* The fields of AutoShardingOption the tutorial names.  Their defaults are
\* set by alpa, outside this file, so every combination is a start state.
DefaultAsOptions ==
    [prefer_reduce_scatter : BOOLEAN,
     force_batch_dim_to_mesh_dim : {None, Some(0), Some(1)},
     force_data_parallel : BOOLEAN]

\* The stage modes "manual_gpipe" is turned on from ("turn on manual stage
\* plan"; "With default setting, each layer maps a pipeline stage").
DefaultStageModes == {"uniform_layer_gpipe", "auto_gpipe"}

NoObject == [id |-> 0, cls |-> "unbound"]

NoState == [id |-> 0, model_id |-> 0, cls |-> "unbound"]

NoMesh == [created |-> FALSE, alive |-> FALSE, shutdowns |-> 0]

ScriptInit(opt, mode) ==
    /\ pc = 1
    /\ last = 0
    /\ clock = 0
    /\ cluster = FALSE
    /\ meshes = [m \in {"physical", "virtual"} |-> NoMesh]
    /\ batch = 0
    /\ model = NoObject
    /\ state = NoState
    /\ train_step = 0
    /\ get_train_step = 0
    /\ as_option = opt
    /\ as_option_backup = None
    /\ global_config =
           [strategy |-> "shard_parallel",
            devices |-> "unset",
            pipeline_stage_mode |-> mode,
            forward_stage_layer_ids |-> None,
            sub_physical_mesh_shapes |-> None,
            sub_logical_mesh_shapes |-> None,
            submesh_autosharding_option_dicts |-> None]
    /\ global_config_backup = None
    /\ executables = <<>>
    /\ compiles = <<>>

Init ==
    /\ \E opt \in DefaultAsOptions, mode \in DefaultStageModes : ScriptInit(opt, mode)
    /\ CallIdle

CallInit ==
    /\ ScriptInit([prefer_reduce_scatter |-> FALSE,
                   force_batch_dim_to_mesh_dim |-> None,
                   force_data_parallel |-> FALSE], "uniform_layer_gpipe")
    /\ call_cls \in Classes
    /\ call_n \in 0..MaxLayers
    /\ call_i = 0
    /\ call_phase = "loop"
    /\ call_trace = <<>>

-----------------------------------------------------------------------------
(* The statements' effects.                                                *)

Running == pc <= Len(Script)

Cur == Script[pc]

At(op) == Running /\ Cur.op = op

\* Control moves to the next statement.
Advance ==
    /\ pc' = pc + 1
    /\ last' = Cur.line

\* create_train_state(rngkey, model, inputs): a new TrainState built from
\* model.init and model.apply of the model passed in; t is its birth time.
create_train_state(mdl, t) == [id |-> t, model_id |-> mdl.id, cls |-> mdl.cls]

\* as_option.backup(): a snapshot of the option's fields.
AsOptionBackup(opt) == Some(opt)

\* as_option.restore(snapshot): every field takes the snapshot's value.
AsOptionRestore(opt, snapshot) == IF snapshot = None THEN opt ELSE snapshot[1]

\* global_config.backup()
GlobalConfigBackup(cfg) == Some(cfg)

\* global_config.restore(snapshot)
GlobalConfigRestore(cfg, snapshot) == IF snapshot = None THEN cfg ELSE snapshot[1]

\* Whether the mesh global_config.devices names exists and was not shut down.
MeshAlive(d) == d \in DOMAIN meshes /\ meshes[d].created /\ meshes[d].alive

\* The function handed to parallelize by the statement st.
ResolveFn(st) ==
    IF st.via = "train_step"
    THEN TrainStepDef(train_step)
    ELSE GetTrainStepDef(get_train_step, st.remat_layer)

\* ray.init()
RayInit ==
    /\ At("ray_init")
    /\ Advance
    /\ UNCHANGED <<clock, cluster, meshes, batch, model, state, train_step,
                   get_train_step, as_option, as_option_backup, global_config,
                   global_config_backup, executables, compiles, callVars>>

\* cluster = DeviceCluster()
NewCluster ==
    /\ At("cluster")
    /\ cluster' = TRUE
    /\ Advance
    /\ UNCHANGED <<clock, meshes, batch, model, state, train_step,
                   get_train_step, as_option, as_option_backup, global_config,
                   global_config_backup, executables, compiles, callVars>>

\* global_config.devices = cluster.get_physical_mesh()
\* global_config.devices = cluster.get_virtual_physical_mesh()
SetDevices ==
    /\ At("set_devices")
    /\ meshes' = [meshes EXCEPT ![Cur.mesh] =
                      [created |-> TRUE, alive |-> TRUE, shutdowns |-> @.shutdowns]]
    /\ global_config' = [global_config EXCEPT !.devices = Cur.mesh]
    /\ Advance
    /\ UNCHANGED <<clock, cluster, batch, model, state, train_step,
                   get_train_step, as_option, as_option_backup,
                   global_config_backup, executables, compiles, callVars>>

\* batch = {'x': x, 'y': y, "attention_mask": attention_mask}
BindBatch ==
    /\ At("batch")
    /\ batch' = clock + 1
    /\ clock' = clock + 1
    /\ Advance
    /\ UNCHANGED <<cluster, meshes, model, state, train_step,
                   get_train_step, as_option, as_option_backup, global_config,
                   global_config_backup, executables, compiles, callVars>>

\* model = <class>(config=bert_config)
BindModel ==
    /\ At("model")
    /\ model' = [id |-> clock + 1, cls |-> Cur.cls]
    /\ clock' = clock + 1
    /\ Advance
    /\ UNCHANGED <<cluster, meshes, batch, state, train_step,
                   get_train_step, as_option, as_option_backup, global_config,
                   global_config_backup, executables, compiles, callVars>>

\* state = create_train_state(rngkey, model, [x, attention_mask])
CreateTrainState ==
    /\ At("create_train_state")
    /\ state' = create_train_state(model, clock + 1)
    /\ clock' = clock + 1
    /\ Advance
    /\ UNCHANGED <<cluster, meshes, batch, model, train_step,
                   get_train_step, as_option, as_option_backup, global_config,
                   global_config_backup, executables, compiles, callVars>>

\* reset_state(): global state; state = create_train_state(rngkey, model, ...)
\* with `model` read from the globals at the time of the call
ResetState ==
    /\ At("reset_state")
    /\ state' = create_train_state(model, clock + 1)
    /\ clock' = clock + 1
    /\ Advance
    /\ UNCHANGED <<cluster, meshes, batch, model, train_step,
                   get_train_step, as_option, as_option_backup, global_config,
                   global_config_backup, executables, compiles, callVars>>

\* def train_step(state, batch): ...
DefTrainStep ==
    /\ At("def_train_step")
    /\ train_step' = Cur.line
    /\ Advance
    /\ UNCHANGED <<clock, cluster, meshes, batch, model, state,
                   get_train_step, as_option, as_option_backup, global_config,
                   global_config_backup, executables, compiles, callVars>>

\* def get_train_step(remat_layer): ...
DefGetTrainStep ==
    /\ At("def_get_train_step")
    /\ get_train_step' = Cur.line
    /\ Advance
    /\ UNCHANGED <<clock, cluster, meshes, batch, model, state,
                   train_step, as_option, as_option_backup, global_config,
                   global_config_backup, executables, compiles, callVars>>

\* as_option_backup = as_option.backup()
AsBackup ==
    /\ At("as_backup")
    /\ as_option_backup' = AsOptionBackup(as_option)
    /\ Advance
    /\ UNCHANGED <<clock, cluster, meshes, batch, model, state, train_step,
                   get_train_step, as_option, global_config,
                   global_config_backup, executables, compiles, callVars>>

\* as_option.<field> = <value>
SetAsOption ==
    /\ At("set_as_option")
    /\ as_option' = [as_option EXCEPT ![Cur.field] = Cur.value]
    /\ Advance
    /\ UNCHANGED <<clock, cluster, meshes, batch, model, state, train_step,
                   get_train_step, as_option_backup, global_config,
                   global_config_backup, executables, compiles, callVars>>

\* as_option.restore(as_option_backup)
AsRestore ==
    /\ At("as_restore")
    /\ as_option' = AsOptionRestore(as_option, as_option_backup)
    /\ Advance
    /\ UNCHANGED <<clock, cluster, meshes, batch, model, state, train_step,
                   get_train_step, as_option_backup, global_config,
                   global_config_backup, executables, compiles, callVars>>

\* executable = parallelize(fn).get_executable(state, batch): the compile reads
\* the configuration, the devices, the state and the batch as they are now.
GetExecutable ==
    /\ At("get_executable")
    /\ executables' = Append(executables,
           [id |-> clock + 1,
            line |-> Cur.line,
            pipeshard |-> global_config.strategy = "pipeshard_parallel",
            alive |-> TRUE,
            profiled |-> 0,
            profiled_dead |-> FALSE,
            shutdowns |-> 0])
    /\ compiles' = Append(compiles,
           [line |-> Cur.line,
            at |-> clock + 1,
            fn |-> ResolveFn(Cur),
            state |-> state,
            model |-> model,
            batch |-> batch,
            as_option |-> as_option,
            global_config |-> global_config,
            mesh_alive |-> MeshAlive(global_config.devices)])
    /\ clock' = clock + 1
    /\ Advance
    /\ UNCHANGED <<cluster, meshes, batch, model, state, train_step,
                   get_train_step, as_option, as_option_backup, global_config,
                   global_config_backup, callVars>>

\* print_hlo_communication_stats(executable.get_hlo_text())
PrintHloStats ==
    /\ At("print_hlo")
    /\ Advance
    /\ UNCHANGED <<clock, cluster, meshes, batch, model, state, train_step,
                   get_train_step, as_option, as_option_backup, global_config,
                   global_config_backup, executables, compiles, callVars>>

\* print(">>>>> With remat") / print(">>>>> Without remat")
PrintStmt ==
    /\ At("print")
    /\ Advance
    /\ UNCHANGED <<clock, cluster, meshes, batch, model, state, train_step,
                   get_train_step, as_option, as_option_backup, global_config,
                   global_config_backup, executables, compiles, callVars>>

\* global_config.devices.shutdown()
DevicesShutdown ==
    /\ At("devices_shutdown")
    /\ meshes' = IF global_config.devices \in DOMAIN meshes
                 THEN [meshes EXCEPT ![global_config.devices] =
                           [@ EXCEPT !.alive = FALSE, !.shutdowns = @ + 1]]
                 ELSE meshes
    /\ Advance
    /\ UNCHANGED <<clock, cluster, batch, model, state, train_step,
                   get_train_step, as_option, as_option_backup, global_config,
                   global_config_backup, executables, compiles, callVars>>

\* global_config.<field> = <value>
SetGlobalConfig ==
    /\ At("set_global_config")
    /\ global_config' = [global_config EXCEPT ![Cur.field] = Cur.value]
    /\ Advance
    /\ UNCHANGED <<clock, cluster, meshes, batch, model, state, train_step,
                   get_train_step, as_option, as_option_backup,
                   global_config_backup, executables, compiles, callVars>>

\* global_config_backup = global_config.backup()
GlobalBackup ==
    /\ At("gc_backup")
    /\ global_config_backup' = GlobalConfigBackup(global_config)
    /\ Advance
    /\ UNCHANGED <<clock, cluster, meshes, batch, model, state, train_step,
                   get_train_step, as_option, as_option_backup, global_config,
                   executables, compiles, callVars>>

\* global_config.restore(global_config_backup)
GlobalRestore ==
    /\ At("gc_restore")
    /\ global_config' = GlobalConfigRestore(global_config, global_config_backup)
    /\ Advance
    /\ UNCHANGED <<clock, cluster, meshes, batch, model, state, train_step,
                   get_train_step, as_option, as_option_backup,
                   global_config_backup, executables, compiles, callVars>>

\* profile_and_pp_pipeshard_stats(executable): executable.profile_all_executables()
\* and prints; `executable` is the executable compiled last.
Profile ==
    /\ At("profile")
    /\ executables' =
           IF executables = <<>> THEN executables
           ELSE [executables EXCEPT ![Len(executables)] =
                    [@ EXCEPT !.profiled = @ + 1,
                              !.profiled_dead = @ \/ ~executables[Len(executables)].alive]]
    /\ Advance
    /\ UNCHANGED <<clock, cluster, meshes, batch, model, state, train_step,
                   get_train_step, as_option, as_option_backup, global_config,
                   global_config_backup, compiles, callVars>>

\* executable.shutdown()
ExecutableShutdown ==
    /\ At("shutdown")
    /\ executables' =
           IF executables = <<>> THEN executables
           ELSE [executables EXCEPT ![Len(executables)] =
                    [@ EXCEPT !.alive = FALSE, !.shutdowns = @ + 1]]
    /\ Advance
    /\ UNCHANGED <<clock, cluster, meshes, batch, model, state, train_step,
                   get_train_step, as_option, as_option_backup, global_config,
                   global_config_backup, compiles, callVars>>

Next ==
    \/ RayInit
    \/ NewCluster
    \/ SetDevices
    \/ BindBatch
    \/ BindModel
    \/ CreateTrainState
    \/ ResetState
    \/ DefTrainStep
    \/ DefGetTrainStep
    \/ AsBackup
    \/ SetAsOption
    \/ AsRestore
    \/ GetExecutable
    \/ PrintHloStats
    \/ PrintStmt
    \/ DevicesShutdown
    \/ SetGlobalConfig
    \/ GlobalBackup
    \/ GlobalRestore
    \/ Profile
    \/ ExecutableShutdown

Spec == Init /\ [][Next]_vars

CallSpec == CallInit /\ [][CallNext]_vars

-----------------------------------------------------------------------------
(* What alpa does with what the script hands it, as far as the tutorial's  *)
(* prose says it.                                                          *)

\* manual_layer_construction: the layers are the runs of Bert layer calls
\* between a start marker and the next end marker.  Scan reads the first k
\* events of a trace:
\*   open      a start marker is waiting for its end marker
\*   name      the name of that start marker
\*   cur       the Bert layers seen since it
\*   layers    the layers closed so far, in order
\*   paired    no layer call outside a pair, no start inside a pair, no end
\*             outside one
\*   names_ok  every end marker so far carried its start marker's name
RECURSIVE Scan(_, _)
Scan(tr, k) ==
    IF k = 0
    THEN [open |-> FALSE, name |-> <<>>, cur |-> {}, layers |-> <<>>,
          paired |-> TRUE, names_ok |-> TRUE]
    ELSE LET s == Scan(tr, k - 1)
             e == tr[k]
         IN  IF e.kind = "layer"
             THEN [s EXCEPT !.cur = @ \cup {e.idx}, !.paired = @ /\ s.open]
             ELSE IF e.mark_type = "start"
             THEN [s EXCEPT !.open = TRUE, !.name = e.name, !.cur = {},
                            !.paired = @ /\ ~s.open]
             ELSE [s EXCEPT !.open = FALSE, !.layers = Append(@, s.cur),
                            !.paired = @ /\ s.open,
                            !.names_ok = @ /\ (s.open => e.name = s.name)]

ScanAll(tr) == Scan(tr, Len(tr))

\* The alpa layers a trace is split into.
LayersOf(tr) == ScanAll(tr).layers

\* Start and end markers alternate, starting with a start and ending with an
\* end, and every layer call is inside a pair.
WellPaired(tr) ==
    /\ tr # <<>>
    /\ tr[1].kind = "mark"
    /\ tr[Len(tr)].kind = "mark"
    /\ ScanAll(tr).paired
    /\ ~ScanAll(tr).open

\* Every end marker carries the name of the start marker it closes.
NamesMatch(tr) == ScanAll(tr).names_ok

\* force_batch_dim_to_mesh_dim = d maps logical mesh dimension d (0 or 1) to
\* the batch dimension: the batch is split into as many parts as that mesh
\* dimension has devices.
ForcedBatchSplit(d, mesh_shape) == mesh_shape[d + 1]

\* automatic_remat / automatic_layer_construction with layer_num parts over n
\* equal Bert layers: the Bert layer indices at which a new part begins.
SplitBoundaries(n, layer_num) == {(k * n) \div layer_num : k \in 1..(layer_num - 1)}

-----------------------------------------------------------------------------
(* Helpers of the properties.                                              *)

Finished == pc > Len(Script)

CompilesAt(line) == {k \in DOMAIN compiles : compiles[k].line = line}

RECURSIVE Flatten(_)
Flatten(ss) == IF ss = <<>> THEN <<>> ELSE Head(ss) \o Flatten(Tail(ss))

RECURSIVE Prod(_)
Prod(shape) == IF shape = <<>> THEN 1 ELSE Head(shape) * Prod(Tail(shape))

RECURSIVE SumDevices(_)
SumDevices(shapes) ==
    IF shapes = <<>> THEN 0 ELSE Prod(Head(shapes)) + SumDevices(Tail(shapes))

PlanFields == {"pipeline_stage_mode", "forward_stage_layer_ids",
               "sub_physical_mesh_shapes", "sub_logical_mesh_shapes",
               "submesh_autosharding_option_dicts"}

Pipeshard == {k \in DOMAIN executables : executables[k].pipeshard}

\* A train step that needs the pipeshard strategy.
UsesPipeline(fn) == fn.grad = "alpa.grad" \/ fn.decorators # <<>>

\* A train step whose loss function is decorated for manual pipeline markers.
UsesManualMarkers(fn) ==
    \E j \in DOMAIN fn.decorators : fn.decorators[j].name = "manual_layer_construction"

-----------------------------------------------------------------------------
(* Properties of __call__ (checked under CallSpec).                        *)

CallDone == call_phase = "done"

\* C3: for UnequalManualLayerBertLayerModel and EqualManualLayerBertLayerModel
\* and every num_hidden_layers >= 1, the markers and layer calls emitted by
\* __call__ alternate start/end, begin with a start, end with an end, every
\* Bert layer call lies inside an open start..end pair, and each end marker
\* carries the name of the start marker that opened its pair.
C3_MarkersPairedByName ==
    (CallDone /\ call_cls \in ManualClasses /\ call_n >= 1)
        => (WellPaired(call_trace) /\ NamesMatch(call_trace))

\* The part of C3 that does not speak of names: the pairs themselves are
\* well formed for both classes.
MarkersWellPaired ==
    (CallDone /\ call_cls \in ManualClasses /\ call_n >= 1) => WellPaired(call_trace)

\* The statement-by-statement run and CallTrace agree.
CallTraceAgrees == CallDone => call_trace = CallTrace(call_cls, call_n)

\* C4: for every num_hidden_layers n >= 2 the markers of
\* UnequalManualLayerBertLayerModel delimit exactly two alpa layers, {0} and
\* {1..n-1}, and every Bert layer belongs to exactly one of them; with the
\* tutorial's four Bert layers these are {0} and {1, 2, 3}.
C4_UnequalTwoLayers ==
    (CallDone /\ call_cls = "UnequalManualLayerBertLayerModel" /\ call_n >= 2)
        => /\ WellPaired(call_trace)
           /\ LayersOf(call_trace) = << {0}, 1..(call_n - 1) >>
           /\ \A b \in 0..(call_n - 1) :
                  Cardinality({j \in DOMAIN LayersOf(call_trace) :
                                   b \in LayersOf(call_trace)[j]}) = 1

C4_Witness ==
    /\ CallDone
    /\ call_cls = "UnequalManualLayerBertLayerModel"
    /\ call_n = bert_config.num_hidden_layers
    /\ LayersOf(call_trace) = << {0}, {1, 2, 3} >>

-----------------------------------------------------------------------------
(* Properties of the script (checked under Spec).                          *)

C2_GlobalConfigRestored ==
    /\ last = 323
           => /\ global_config_backup # None
              /\ \A f \in PlanFields : global_config[f] = global_config_backup[1][f]
              /\ global_config.strategy = "pipeshard_parallel"
              /\ global_config.devices = "virtual"
    /\ \A k \in DOMAIN compiles :
           compiles[k].line > 323
               => /\ global_config_backup # None
                  /\ compiles[k].global_config.pipeline_stage_mode # "manual_gpipe"
                  /\ \A f \in PlanFields :
                         compiles[k].global_config[f] = global_config_backup[1][f]
                  /\ compiles[k].global_config.strategy = "pipeshard_parallel"
                  /\ compiles[k].global_config.devices = "virtual"

C2_Witness ==
    /\ CompilesAt(355) # {}
    /\ \E k \in CompilesAt(319) :
           /\ compiles[k].global_config.pipeline_stage_mode = "manual_gpipe"
           /\ compiles[k].global_config.forward_stage_layer_ids # None
    /\ global_config.pipeline_stage_mode # "manual_gpipe"
    /\ global_config.forward_stage_layer_ids = None

\* C5: each of the two force_batch_dim_to_mesh_dim compiles observes exactly
\* the value assigned immediately before it; on the default mesh shape
\* (num_host, num_device) = (1, 4) the compile with value 0 maps the batch to
\* the mesh dimension of size 1 (not split: model parallel) and the compile
\* with value 1 splits the batch across the 4 devices (data parallel).
C5_ForceBatchDimObserved ==
    /\ \A k \in CompilesAt(156) :
           /\ compiles[k].as_option.force_batch_dim_to_mesh_dim = Some(0)
           /\ ForcedBatchSplit(compiles[k].as_option.force_batch_dim_to_mesh_dim[1],
                               DefaultMeshShape) = 1
    /\ \A k \in CompilesAt(162) :
           /\ compiles[k].as_option.force_batch_dim_to_mesh_dim = Some(1)
           /\ ForcedBatchSplit(compiles[k].as_option.force_batch_dim_to_mesh_dim[1],
                               DefaultMeshShape) = num_device
           /\ num_device > 1

C5_Witness ==
    /\ \E k \in CompilesAt(156) :
           compiles[k].as_option.force_batch_dim_to_mesh_dim = Some(0)
    /\ \E k \in CompilesAt(162) :
           compiles[k].as_option.force_batch_dim_to_mesh_dim = Some(1)

\* C6: every get_executable call receives a train state constructed after the
\* previous get_executable call, built from the model object bound to `model`
\* at the moment of the compile, which is a model with pipeline markers exactly
\* when the compiled train_step uses manual_layer_construction; the batch is
\* never rebound between compiles.
C6_FreshStatePerCompile ==
    \A k \in DOMAIN compiles :
        /\ compiles[k].state.id > (IF k = 1 THEN 0 ELSE compiles[k - 1].at)
        /\ compiles[k].state.model_id = compiles[k].model.id
        /\ compiles[k].state.cls = compiles[k].model.cls
        /\ compiles[k].model.id > 0
        /\ UsesManualMarkers(compiles[k].fn) <=> compiles[k].model.cls \in ManualClasses
        /\ compiles[k].batch > 0
        /\ compiles[k].batch = compiles[1].batch

C6_Witness ==
    /\ Finished
    /\ Len(compiles) = 10
    /\ \E k \in CompilesAt(360) : compiles[k].state.id = compiles[k].at - 1
    /\ \E j \in CompilesAt(253), k \in CompilesAt(404) :
           /\ compiles[j].model.cls # compiles[k].model.cls
           /\ compiles[k].state.model_id = compiles[k].model.id

\* C7: in the second get_train_step, with remat_layer the loss function is
\* wrapped by automatic_remat with layer_num=4 and the result by
\* automatic_layer_construction with layer_num=2; without remat_layer only
\* automatic_layer_construction with layer_num=2 is applied; alpa.grad is
\* applied to the layer-constructed function.  For the 4-Bert-layer model the
\* remat parts are the single Bert layers, the pipeline layers hold two Bert
\* layers each, and every pipeline-layer boundary is a remat boundary.
C7_RematThenLayerConstruction ==
    /\ \A k \in CompilesAt(399) :
           LET d == compiles[k].fn.decorators
               n == bert_config.num_hidden_layers
           IN  /\ compiles[k].fn.def = 376
               /\ d = << automatic_remat(4), automatic_layer_construction(2) >>
               /\ compiles[k].fn.grad = "alpa.grad"
               /\ compiles[k].model.cls = "BertLayerModel"
               /\ SplitBoundaries(n, d[1].layer_num[1]) = 1..(n - 1)
               /\ SplitBoundaries(n, d[2].layer_num[1]) = {2}
               /\ SplitBoundaries(n, d[2].layer_num[1])
                      \subseteq SplitBoundaries(n, d[1].layer_num[1])
    /\ \A k \in CompilesAt(404) :
           /\ compiles[k].fn.def = 376
           /\ compiles[k].fn.decorators = << automatic_layer_construction(2) >>
           /\ compiles[k].fn.grad = "alpa.grad"

C7_Witness ==
    /\ \E k \in CompilesAt(399) : Len(compiles[k].fn.decorators) = 2
    /\ \E k \in CompilesAt(404) : Len(compiles[k].fn.decorators) = 1

\* C8: the manual stage plan fits the EqualManualLayerBertLayerModel it is
\* compiled with: forward_stage_layer_ids assigns each of the four
\* marker-delimited layers 0..3 to exactly one stage, in increasing contiguous
\* order; the four per-stage lists have the same length, 3; for each stage the
\* product of the logical mesh shape equals that of the physical mesh shape;
\* the per-stage device counts sum to the 4 devices of the default mesh.
C8_StagePlanConsistent ==
    \A k \in CompilesAt(319) :
        LET cfg == compiles[k].global_config
            layers == LayersOf(CallTrace(compiles[k].model.cls,
                                         bert_config.num_hidden_layers))
        IN  /\ cfg.pipeline_stage_mode = "manual_gpipe"
            /\ \A f \in PlanFields \ {"pipeline_stage_mode"} :
                   cfg[f] # None /\ Len(cfg[f][1]) = 3
            /\ compiles[k].model.cls = "EqualManualLayerBertLayerModel"
            /\ Len(layers) = 4
            /\ \A s \in DOMAIN cfg.forward_stage_layer_ids[1] :
                   cfg.forward_stage_layer_ids[1][s] # <<>>
            /\ Flatten(cfg.forward_stage_layer_ids[1])
                   = [j \in 1..Len(layers) |-> j - 1]
            /\ \A s \in 1..3 :
                   Prod(cfg.sub_logical_mesh_shapes[1][s])
                       = Prod(cfg.sub_physical_mesh_shapes[1][s])
            /\ SumDevices(cfg.sub_physical_mesh_shapes[1]) = Prod(DefaultMeshShape)

C8_Witness ==
    \E k \in CompilesAt(319) :
        /\ compiles[k].global_config.forward_stage_layer_ids
               = Some(<< <<0>>, <<1>>, <<2, 3>> >>)
        /\ compiles[k].global_config.submesh_autosharding_option_dicts # None

\* C9: in the pipeshard section every executable returned by get_executable
\* is profiled exactly once and then shut down before the next get_executable
\* call; two pipeshard executables are never alive at the same time, none is
\* profiled after its shutdown, and none is alive when the script ends.
C9_ProfileThenShutdown ==
    /\ Cardinality({k \in Pipeshard : executables[k].alive}) <= 1
    /\ \A k \in Pipeshard :
           /\ ~executables[k].profiled_dead
           /\ executables[k].profiled <= 1
           /\ executables[k].shutdowns <= 1
           /\ ~executables[k].alive => executables[k].profiled = 1
           /\ (k < Len(executables) \/ Finished)
                  => /\ executables[k].profiled = 1
                     /\ ~executables[k].alive
    /\ \A k \in DOMAIN executables :
           executables[k].pipeshard <=> executables[k].line > 176

C9_Witness ==
    /\ Finished
    /\ Cardinality(Pipeshard) = 6
    /\ \A k \in Pipeshard : executables[k].profiled = 1 /\ ~executables[k].alive

\* C10: the physical mesh installed at start-up is shut down exactly once and
\* no compile runs against a shut-down mesh; every compile whose train_step
\* uses alpa.grad, mark_pipeline or a layer-construction decorator happens with strategy
\* "pipeshard_parallel"; the train_step defined at line 180 is never compiled.
C10_SafeSwitch ==
    /\ meshes["physical"].shutdowns <= 1
    /\ meshes["virtual"].shutdowns = 0
    /\ Finished => meshes["physical"].shutdowns = 1
    /\ global_config.strategy = "pipeshard_parallel"
           => meshes["physical"].shutdowns = 1
    /\ \A k \in DOMAIN compiles :
           /\ compiles[k].mesh_alive
           /\ (UsesPipeline(compiles[k].fn) \/ compiles[k].model.cls \in ManualClasses)
                  => compiles[k].global_config.strategy = "pipeshard_parallel"
           /\ compiles[k].fn.def # 180
           /\ compiles[k].fn.attention_mask

C10_Witness ==
    /\ Finished
    /\ meshes["physical"].shutdowns = 1
    /\ global_config.devices = "virtual"
    /\ train_step = 237
    /\ \E k \in DOMAIN compiles : UsesPipeline(compiles[k].fn)
    /\ \E k \in DOMAIN compiles : ~UsesPipeline(compiles[k].fn)

====
